---- MODULE Spec2Model ----
(***************************************************************************)
(* Model of the calendar bot's message handler (src/main.py, on_message).  *)
(*                                                                         *)
(* Texts are sequences of one-character strings.  The handler is modelled  *)
(* one await point at a time: every action is the code between two         *)
(* consecutive awaits of on_message, so the chat platform, the language    *)
(* model and the webhook answer between the handler's steps.               *)
(***************************************************************************)
EXTENDS Integers, Sequences, FiniteSets, TLC

\* ------------------------------------------------------------------ bounds

\* Longest string value of an event record the stub model serialises.
MaxStrLen == 3
\* Longest free-form response text enumerated character by character.
MaxTextLen == 2
\* Messages delivered to the handler in one behaviour.
MaxMessages == 2

\* ------------------------------------------------------------- characters

DQ == "\""
BS == "\\"
NL == "\n"
TAB == "\t"
\* The backtick, which a TLA+ string literal cannot hold, is written "^".
BT == "^"

Whitespace == {" ", NL, TAB}

\* The two fence markers main.py searches for: three backticks, and three
\* backticks followed by json.
Fence == <<BT, BT, BT>>
FenceJson == <<BT, BT, BT, "j", "s", "o", "n">>

\* ---------------------------------------------------- Python str operations

\* s[i:i+len(p)] == p
OccursAt(s, p, i) ==
    /\ i >= 1
    /\ i + Len(p) - 1 <= Len(s)
    /\ SubSeq(s, i, i + Len(p) - 1) = p

\* s.find(p) + 1: the leftmost occurrence of p in s, 0 when there is none.
Find(s, p) ==
    LET hits == {i \in 1..(Len(s) + 1) : OccursAt(s, p, i)}
    IN IF hits = {} THEN 0 ELSE CHOOSE i \in hits : \A j \in hits : i <= j

\* p in s
Contains(s, p) == Find(s, p) # 0

\* s.split(sep)[0]: the text before the leftmost sep, or all of s.
SplitFirst(s, sep) ==
    LET i == Find(s, sep)
    IN IF i = 0 THEN s ELSE SubSeq(s, 1, i - 1)

\* s.split(sep)[1]: the text between the leftmost sep and the next one.
\* Python raises IndexError when s holds no sep; callers test (sep in s) first.
SplitSecond(s, sep) ==
    LET i == Find(s, sep)
        rest == SubSeq(s, i + Len(sep), Len(s))
    IN SplitFirst(rest, sep)

RECURSIVE LStrip(_)
LStrip(s) ==
    IF s # <<>> /\ Head(s) \in Whitespace THEN LStrip(Tail(s)) ELSE s

RECURSIVE RStrip(_)
RStrip(s) ==
    IF s # <<>> /\ s[Len(s)] \in Whitespace
    THEN RStrip(SubSeq(s, 1, Len(s) - 1))
    ELSE s

\* s.strip()
Strip(s) == RStrip(LStrip(s))

\* s.startswith(p), s.endswith(p)
StartsWith(s, p) == OccursAt(s, p, 1)
EndsWith(s, p) == OccursAt(s, p, Len(s) - Len(p) + 1)

\* s[:n]
Truncate(s, n) == IF Len(s) <= n THEN s ELSE SubSeq(s, 1, n)

\* ------------------------------------------------------------- JSON values

\* A decoded JSON value: a str, None, True/False or a dict (a function from
\* key texts to values).
JStr(s) == [tag |-> "str", str |-> s, obj |-> <<>>]
JNull == [tag |-> "null", str |-> <<>>, obj |-> <<>>]
JTrue == [tag |-> "true", str |-> <<>>, obj |-> <<>>]
JFalse == [tag |-> "false", str |-> <<>>, obj |-> <<>>]
JObj(f) == [tag |-> "obj", str |-> <<>>, obj |-> f]
EmptyObject == JObj(<<>>)

\* Falsy as (v is None) would have it.
Falsy_NoneOnly(v) == v.tag = "null"

\* (not v) of a decoded value: empty dict, empty str, None and False.
Falsy(v) ==
    \/ v.tag = "null"
    \/ v.tag = "false"
    \/ v.tag = "str" /\ v.str = <<>>
    \/ v.tag = "obj" /\ DOMAIN v.obj = {}

\* -------------------------------------------------------------- json.loads

Fail == [ok |-> FALSE, val |-> JNull, next |-> 0]
Ok(v, n) == [ok |-> TRUE, val |-> v, next |-> n]

\* The decoder's one-character escapes (the escapes b, f, r and uXXXX are left
\* out: no text of the model holds a backslash followed by one of them).
Unescape(c) ==
    CASE c = DQ -> DQ
      [] c = BS -> BS
      [] c = "/" -> "/"
      [] c = "n" -> NL
      [] c = "t" -> TAB
      [] OTHER -> ""

RECURSIVE SkipWs(_, _)
SkipWs(s, i) ==
    IF i <= Len(s) /\ s[i] \in Whitespace THEN SkipWs(s, i + 1) ELSE i

\* The body of a string literal from position i (after the opening quote).
RECURSIVE ScanString(_, _, _)
ScanString(s, i, acc) ==
    IF i > Len(s) THEN Fail
    ELSE IF s[i] = DQ THEN Ok(JStr(acc), i + 1)
    ELSE IF s[i] = BS THEN
        IF i + 1 > Len(s) \/ Unescape(s[i + 1]) = "" THEN Fail
        ELSE ScanString(s, i + 2, Append(acc, Unescape(s[i + 1])))
    ELSE IF s[i] \in {NL, TAB} THEN Fail
    ELSE ScanString(s, i + 1, Append(acc, s[i]))

RECURSIVE ParseValue(_, _)
RECURSIVE ParseMembers(_, _, _)

\* "key": value pairs from position i, up to the closing brace.
ParseMembers(s, i, acc) ==
    IF i > Len(s) \/ s[i] # DQ THEN Fail
    ELSE
        LET key == ScanString(s, i + 1, <<>>)
        IN IF ~key.ok THEN Fail
           ELSE
             LET c == SkipWs(s, key.next)
             IN IF c > Len(s) \/ s[c] # ":" THEN Fail
                ELSE
                  LET v == ParseValue(s, SkipWs(s, c + 1))
                  IN IF ~v.ok THEN Fail
                     ELSE
                       LET m == SkipWs(s, v.next)
                           acc2 == (key.val.str :> v.val) @@ acc
                       IN IF m > Len(s) THEN Fail
                          ELSE IF s[m] = "}" THEN Ok(JObj(acc2), m + 1)
                          ELSE IF s[m] = ","
                               THEN ParseMembers(s, SkipWs(s, m + 1), acc2)
                          ELSE Fail

\* One JSON value at position i (whitespace already skipped).  Numbers and
\* arrays are not decoded: no text of the model holds a digit, "-", or "[".
ParseValue(s, i) ==
    IF i > Len(s) THEN Fail
    ELSE IF s[i] = DQ THEN ScanString(s, i + 1, <<>>)
    ELSE IF s[i] = "{" THEN
        LET j == SkipWs(s, i + 1)
        IN IF j <= Len(s) /\ s[j] = "}" THEN Ok(EmptyObject, j + 1)
           ELSE ParseMembers(s, j, <<>>)
    ELSE IF OccursAt(s, <<"n", "u", "l", "l">>, i) THEN Ok(JNull, i + 4)
    ELSE IF OccursAt(s, <<"t", "r", "u", "e">>, i) THEN Ok(JTrue, i + 4)
    ELSE IF OccursAt(s, <<"f", "a", "l", "s", "e">>, i) THEN Ok(JFalse, i + 5)
    ELSE Fail

\* json.loads(s): [ok |-> FALSE] stands for json.JSONDecodeError.
Loads(s) ==
    LET v == ParseValue(s, SkipWs(s, 1))
    IN IF v.ok /\ SkipWs(s, v.next) = Len(s) + 1 THEN v ELSE Fail

\* -------------------------------------------------------------- json.dumps

RECURSIVE EscapeText(_)
EscapeText(s) ==
    IF s = <<>> THEN <<>>
    ELSE (CASE Head(s) = DQ -> <<BS, DQ>>
            [] Head(s) = BS -> <<BS, BS>>
            [] Head(s) = NL -> <<BS, "n">>
            [] Head(s) = TAB -> <<BS, "t">>
            [] OTHER -> <<Head(s)>>) \o EscapeText(Tail(s))

DumpsStr(s) == <<DQ>> \o EscapeText(s) \o <<DQ>>

\* The keys of an event record, in the order the prompt lists them.
KeyTitle == <<"t", "i", "t", "l", "e">>
KeyLocation == <<"l", "o", "c", "a", "t", "i", "o", "n">>
KeyOrder == <<KeyTitle, KeyLocation>>

DumpsValue(v) ==
    IF v.tag = "str" THEN DumpsStr(v.str)
    ELSE IF v.tag = "true" THEN <<"t", "r", "u", "e">>
    ELSE IF v.tag = "false" THEN <<"f", "a", "l", "s", "e">>
    ELSE <<"n", "u", "l", "l">>

RECURSIVE DumpsMembers(_, _, _)
DumpsMembers(f, keys, first) ==
    IF keys = <<>> THEN <<>>
    ELSE IF Head(keys) \notin DOMAIN f THEN DumpsMembers(f, Tail(keys), first)
    ELSE (IF first THEN <<>> ELSE <<",", " ">>)
         \o DumpsStr(Head(keys)) \o <<":", " ">> \o DumpsValue(f[Head(keys)])
         \o DumpsMembers(f, Tail(keys), FALSE)

\* json.dumps(E) of an event record E (a flat dict of str and None values).
Dumps(E) == <<"{">> \o DumpsMembers(E.obj, KeyOrder, TRUE) \o <<"}">>

\* ----------------------------------------------------- extraction (step 3)

\* ExtractJsonStr without the test of line 136: any unfenced text is taken.
ExtractJsonStr_NoBraceCheck(text) ==
    LET json_str ==
            IF Contains(text, FenceJson)
            THEN Strip(SplitFirst(SplitSecond(text, FenceJson), Fence))
            ELSE IF Contains(text, Fence)
            THEN Strip(SplitFirst(SplitSecond(text, Fence), Fence))
            ELSE Strip(text)
    IN [found |-> json_str # <<>>, json_str |-> json_str]

\* ExtractJsonStr testing for the bare fence before the labelled one.
ExtractJsonStr_PlainFirst(text) ==
    LET json_str ==
            IF Contains(text, Fence)
            THEN Strip(SplitFirst(SplitSecond(text, Fence), Fence))
            ELSE IF Contains(text, FenceJson)
            THEN Strip(SplitFirst(SplitSecond(text, FenceJson), Fence))
            ELSE IF StartsWith(Strip(text), <<"{">>) /\ EndsWith(Strip(text), <<"}">>)
            THEN Strip(text)
            ELSE <<>>
    IN [found |-> json_str # <<>>, json_str |-> json_str]

\* Lines 129-143 of on_message: the JSON text cut out of the model's
\* response.  found = FALSE stands for the json.JSONDecodeError raised when
\* no JSON block is found or the block is empty.
ExtractJsonStr(text) ==
    LET json_str ==
            IF Contains(text, FenceJson)
            THEN Strip(SplitFirst(SplitSecond(text, FenceJson), Fence))
            ELSE IF Contains(text, Fence)
            THEN Strip(SplitFirst(SplitSecond(text, Fence), Fence))
            ELSE IF StartsWith(Strip(text), <<"{">>) /\ EndsWith(Strip(text), <<"}">>)
            THEN Strip(text)
            ELSE <<>>
    IN [found |-> json_str # <<>>, json_str |-> json_str]

\* Lines 129-145: extraction followed by json.loads.  ok = FALSE stands for
\* json.JSONDecodeError, whichever statement raised it.
ExtractEvent(text) ==
    LET x == ExtractJsonStr(text)
    IN IF x.found THEN Loads(x.json_str) ELSE Fail

\* -------------------------------------------------------- program constants

\* Line 19.
TARGET_CHANNEL_NAME == "calendar-agent"
\* Slices of the user-visible texts: [:1500] on lines 165 and 171, [:1000] on
\* line 192.
ReplyCap == 1500
ErrorCap == 1000

\* client.user, and the other author of the model's messages.
BotUser == "bot"
Authors == {BotUser, "alice"}
Channels == {TARGET_CHANNEL_NAME, "general"}
Messages == [author : Authors, channel : Channels]

\* PassesFilter without the test of line 58.
PassesFilter_ChannelOnly(m) == m.channel = TARGET_CHANNEL_NAME

\* Lines 58 and 62: the message is neither the bot's own nor off-channel.
PassesFilter(m) == m.author # BotUser /\ m.channel = TARGET_CHANNEL_NAME

\* IsSuccessStatus accepting 200 alone.
IsSuccessStatus_Only200(status) == status = 200

\* Line 158: webhook_response.status >= 200 and webhook_response.status < 300
IsSuccessStatus(status) == status >= 200 /\ status < 300

\* ------------------------------------------------------------ the inputs

\* Every text of at most n characters of the alphabet.
RECURSIVE TextsUpTo(_, _)
TextsUpTo(alphabet, n) ==
    IF n = 0 THEN {<<>>}
    ELSE LET shorter == TextsUpTo(alphabet, n - 1)
         IN shorter \cup {Append(t, c) : t \in shorter, c \in alphabet}

\* Event records the stub model serialises inside the handler's run.
TitleA == JStr(<<"a">>)
SmallRecords ==
    { EmptyObject,
      JObj(KeyTitle :> TitleA),
      JObj((KeyTitle :> TitleA) @@ (KeyLocation :> JNull)),
      JObj(KeyTitle :> JStr(<<BT, BT, BT>>)) }

\* Event records of the round trip: a title over an alphabet with the
\* backtick and the quote, and a location that is absent, null, at most one
\* character long or a fence.
ValueAlphabet == {BT, "a", DQ}
EventRecords ==
    LET Titles == TextsUpTo(ValueAlphabet, MaxStrLen)
        Locations == {JNull, JStr(Fence)}
                     \cup {JStr(u) : u \in TextsUpTo(ValueAlphabet, 1)}
    IN {EmptyObject}
       \cup {JObj(KeyTitle :> JStr(t)) : t \in Titles}
       \cup {JObj((KeyTitle :> JStr(t)) @@ (KeyLocation :> l)) :
               t \in Titles, l \in Locations}

\* A fenced block around a JSON text: labelled json, unlabelled, or with
\* conversational text around the labelled block.
WrapStyles == {"json", "plain", "chatty"}
Wrap(style, body) ==
    CASE style = "json" -> FenceJson \o <<NL>> \o body \o <<NL>> \o Fence
      [] style = "plain" -> Fence \o <<NL>> \o body \o <<NL>> \o Fence
      [] OTHER -> <<"o", "k", ":", NL>> \o FenceJson \o <<NL>> \o body
                  \o <<NL>> \o Fence \o <<NL>> \o <<"b", "y", "e">>

\* Free-form response texts: every text of up to MaxTextLen characters over
\* braces, a letter and a blank, and some longer ones (fences among them).
FreeAlphabet == {"{", "}", "a", " "}
LongerTexts ==
    { <<"I", " ", "c", "o", "u", "l", "d", "n", "'", "t", " ", "f", "i", "n",
        "d", " ", "a", "n", "y", "t", "h", "i", "n", "g", ".">>,
      Fence, FenceJson, FenceJson \o Fence, Fence \o <<" ">> \o Fence,
      <<NL, "{", " ", "}", NL>>,
      <<"{", "a", "}">>,
      <<"s", "e", "e", " ", "{", "}">>,
      <<"{", "}", " ", "o", "k">>,
      <<"n", "u", "l", "l">>,
      Wrap("json", <<"n", "u", "l", "l">>),
      Wrap("plain", DumpsStr(<<"a">>)),
      Wrap("json", <<"{", "a">>),
      Dumps(JObj(KeyTitle :> TitleA)) }
FreeTexts == TextsUpTo(FreeAlphabet, MaxTextLen) \cup LongerTexts

\* What generate_content_async raises when it does not return a response:
\* the safety block, a decoding failure (the case lines 169-173 provide
\* for), or anything else.
ModelFailures == {"BlockedPromptException", "JSONDecodeError", "Exception"}

\* Webhook statuses and bodies.
Statuses == {199, 200, 299, 300, 500}
Bodies == {<<>>, <<"o", "o", "p", "s">>}

\* --------------------------------------------------------------- the state

VARIABLES
    model,                \* line 26/29: the Gemini client is configured
    MAKE_WEBHOOK_URL,     \* line 15: the webhook URL is configured
    message,              \* the message on_message is handling
    pc,                   \* the await the handler is suspended at
    reactions,            \* the bot's reactions on the message
    reactionLog,          \* add_reaction / remove_reaction calls that returned
    replies,              \* message.channel.send calls, in order
    modelCalls,           \* generate_content_async calls for this message
    webhookPosts,         \* session.post calls for this message
    response,             \* local response (line 116)
    gemini_response_text, \* local gemini_response_text (line 124)
    event_details,        \* local event_details (line 145)
    webhook_response,     \* local webhook_response (line 157)
    raised,               \* the exception raised in the handler, "none" if none
    removal,              \* how the latest remove_reaction call ended
    stubRecord,           \* the event record the stub model serialised, if any
    delivered             \* messages delivered so far

vars ==
    << model, MAKE_WEBHOOK_URL, message, pc, reactions, reactionLog, replies,
       modelCalls, webhookPosts, response, gemini_response_text, event_details,
       webhook_response, raised, removal, stubRecord, delivered >>

config == <<model, MAKE_WEBHOOK_URL>>
locals == <<response, gemini_response_text, event_details, webhook_response>>

Unbound == [bound |-> FALSE, val |-> JNull]
Bound(v) == [bound |-> TRUE, val |-> v]
NoTextYet == [bound |-> FALSE, text |-> <<>>]
BoundText(t) == [bound |-> TRUE, text |-> t]
NoResponse == [bound |-> FALSE, hasText |-> FALSE, text |-> <<>>]
NoWebhookResponse == [bound |-> FALSE, status |-> 0, body |-> <<>>]
NoStub == [set |-> FALSE, rec |-> EmptyObject]
NoMessage == [author |-> "nobody", channel |-> "nowhere"]

Reply(kind, status, text, exc) ==
    [kind |-> kind, status |-> status, text |-> text, exc |-> exc]

\* The state of a handler invocation before its first statement.
FreshLocals ==
    /\ reactions = {}
    /\ reactionLog = <<>>
    /\ replies = <<>>
    /\ modelCalls = 0
    /\ webhookPosts = 0
    /\ response = NoResponse
    /\ gemini_response_text = NoTextYet
    /\ event_details = Unbound
    /\ webhook_response = NoWebhookResponse
    /\ raised = "none"
    /\ removal = "none"
    /\ stubRecord = NoStub

Init ==
    /\ model \in BOOLEAN
    /\ MAKE_WEBHOOK_URL \in BOOLEAN
    /\ message = NoMessage
    /\ pc = "idle"
    /\ delivered = 0
    /\ FreshLocals

\* ------------------------------------------------------- exception routing

\* HandlerFor retrying the model call on an unexpected exception.
HandlerFor_Retry(e) ==
    CASE e = "JSONDecodeError" -> "json_send"
      [] e = "BlockedPromptException" -> "blocked_remove"
      [] OTHER -> "call_model"

\* The except clauses of lines 167, 175 and 183, in order: where an exception
\* raised in the try body (lines 84-165) lands.
HandlerFor(e) ==
    CASE e = "JSONDecodeError" -> "json_send"
      [] e = "BlockedPromptException" -> "blocked_remove"
      [] OTHER -> "unexpected_remove"

\* Lines 121, 179 and 189: `except main.NotFound: pass` around
\* remove_reaction, for the exception e it raised.  The clause's expression
\* is evaluated when an exception reaches it; main is the function of line
\* 195, which has no attribute NotFound, so the evaluation raises
\* AttributeError and that is what leaves the inner try ("none": swallowed).
ExceptNotFound(e) == "AttributeError"

\* How message.remove_reaction can end (lines 120, 178, 188).  With the
\* marker on the message the call removes it or fails in transport; with the
\* marker gone the platform either accepts the call or reports NotFound.
RemoveOutcomes(rs) ==
    IF "thinking" \in rs THEN {"ok", "HTTPException"} ELSE {"ok", "NotFound"}

\* try: remove_reaction(thinking) except main.NotFound: pass.  In the try body a propagating exception goes to the except
\* clauses; inside an except clause it leaves on_message.
RemoveThinkingThen(next, inHandler) ==
    /\ \E o \in RemoveOutcomes(reactions) :
        /\ removal' = o
        /\ IF o = "ok"
           THEN /\ reactions' = reactions \ {"thinking"}
                /\ reactionLog' = Append(reactionLog, <<"remove", "thinking">>)
                /\ pc' = next
                /\ raised' = raised
           ELSE /\ UNCHANGED <<reactions, reactionLog>>
                /\ IF ExceptNotFound(o) = "none"
                   THEN pc' = next /\ raised' = raised
                   ELSE /\ raised' = ExceptNotFound(o)
                        /\ pc' = IF inHandler THEN "escaped"
                                 ELSE HandlerFor(ExceptNotFound(o))
    /\ UNCHANGED <<config, message, replies, modelCalls, webhookPosts, locals,
                   stubRecord, delivered>>

\* await message.add_reaction(emoji).  The call is taken to return: the
\* failures modelled are those of the model call, the extraction, the POST
\* and the marker's removal.
AddReaction(emoji, next) ==
    /\ reactions' = reactions \cup {emoji}
    /\ reactionLog' = Append(reactionLog, <<"add", emoji>>)
    /\ pc' = next
    /\ UNCHANGED <<config, message, replies, modelCalls, webhookPosts, locals,
                   raised, removal, stubRecord, delivered>>

\* await message.channel.send(text), taken to return as well.
Send(reply, next) ==
    /\ replies' = Append(replies, reply)
    /\ pc' = next
    /\ UNCHANGED <<config, message, reactions, reactionLog, modelCalls,
                   webhookPosts, locals, raised, removal, stubRecord, delivered>>

\* str(e) of a caught exception, as one token.
ExcText(e) == <<e>>

\* ------------------------------------------------------------- the handler

\* Lines 57-79: on_message up to its first await, for a delivered message.
on_message(m) ==
    /\ pc \in {"idle", "done", "escaped"}
    /\ delivered < MaxMessages
    /\ delivered' = delivered + 1
    /\ message' = m
    /\ reactions' = {}
    /\ reactionLog' = <<>>
    /\ replies' = <<>>
    /\ modelCalls' = 0
    /\ webhookPosts' = 0
    /\ response' = NoResponse
    /\ gemini_response_text' = NoTextYet
    /\ event_details' = Unbound
    /\ webhook_response' = NoWebhookResponse
    /\ raised' = "none"
    /\ removal' = "none"
    /\ stubRecord' = NoStub
    /\ pc' = IF PassesFilter(m) /\ model /\ MAKE_WEBHOOK_URL
             THEN "add_thinking" ELSE "done"
    /\ UNCHANGED config

\* Line 81.
AddThinking ==
    /\ pc = "add_thinking"
    /\ AddReaction("thinking", "call_model")

\* Line 116: the model returns a response, whose .text is a text or, for a
\* response without a text part, raises ValueError when read (line 124).
ModelReturns ==
    /\ pc = "call_model"
    /\ modelCalls' = modelCalls + 1
    /\ \/ /\ response' \in {[bound |-> TRUE, hasText |-> TRUE, text |-> t] :
                              t \in FreeTexts}
                           \cup {[bound |-> TRUE, hasText |-> FALSE, text |-> <<>>]}
          /\ stubRecord' = NoStub
       \/ \E E \in SmallRecords, style \in WrapStyles :
            /\ response' = [bound |-> TRUE, hasText |-> TRUE,
                            text |-> Wrap(style, Dumps(E))]
            /\ stubRecord' = [set |-> TRUE, rec |-> E]
    /\ pc' = "remove_thinking"
    /\ UNCHANGED <<config, message, reactions, reactionLog, replies,
                   webhookPosts, gemini_response_text, event_details,
                   webhook_response, raised, removal, delivered>>

\* Line 116: the model call raises.
ModelRaises ==
    /\ pc = "call_model"
    /\ modelCalls' = modelCalls + 1
    /\ \E e \in ModelFailures : raised' = e /\ pc' = HandlerFor(e)
    /\ UNCHANGED <<config, message, reactions, reactionLog, replies,
                   webhookPosts, locals, removal, stubRecord, delivered>>

\* Lines 119-122.
RemoveThinking ==
    /\ pc = "remove_thinking"
    /\ RemoveThinkingThen("extract", FALSE)

\* Lines 124-153, up to the next await: response.text, the extraction, the
\* parse and the test for an empty result.
Extract ==
    /\ pc = "extract"
    /\ IF ~response.hasText
       THEN /\ raised' = "ValueError"
            /\ pc' = HandlerFor("ValueError")
            /\ UNCHANGED <<gemini_response_text, event_details>>
       ELSE LET parsed == ExtractEvent(response.text)
            IN /\ gemini_response_text' = BoundText(response.text)
               /\ IF ~parsed.ok
                  THEN /\ raised' = "JSONDecodeError"
                       /\ pc' = HandlerFor("JSONDecodeError")
                       /\ UNCHANGED event_details
                  ELSE /\ event_details' = Bound(parsed.val)
                       /\ raised' = raised
                       /\ pc' = IF Falsy(parsed.val) THEN "add_shrug" ELSE "post"
    /\ UNCHANGED <<config, message, reactions, reactionLog, replies, modelCalls,
                   webhookPosts, response, webhook_response, removal,
                   stubRecord, delivered>>

\* Lines 151-153.
AddShrug ==
    /\ pc = "add_shrug"
    /\ AddReaction("shrug", "done")

\* Lines 156-158: the POST returns a response.
PostReturns ==
    /\ pc = "post"
    /\ webhookPosts' = webhookPosts + 1
    /\ \E st \in Statuses :
        /\ webhook_response' = [bound |-> TRUE, status |-> st, body |-> <<>>]
        /\ pc' = IF IsSuccessStatus(st) THEN "add_success" ELSE "add_warning"
    /\ UNCHANGED <<config, message, reactions, reactionLog, replies, modelCalls,
                   response, gemini_response_text, event_details, raised,
                   removal, stubRecord, delivered>>

\* Lines 156-157: the POST fails in transport (aiohttp.ClientError).
PostRaises ==
    /\ pc = "post"
    /\ webhookPosts' = webhookPosts + 1
    /\ raised' = "ClientError"
    /\ pc' = HandlerFor("ClientError")
    /\ UNCHANGED <<config, message, reactions, reactionLog, replies, modelCalls,
                   locals, removal, stubRecord, delivered>>

\* Line 160.
AddSuccess ==
    /\ pc = "add_success"
    /\ AddReaction("success", "done")

\* Lines 162-164: the body is read, the warning marker added.
AddWarning ==
    /\ pc = "add_warning"
    /\ \E body \in Bodies : webhook_response' = [webhook_response EXCEPT !.body = body]
    /\ reactions' = reactions \cup {"warning"}
    /\ reactionLog' = Append(reactionLog, <<"add", "warning">>)
    /\ pc' = "send_warning"
    /\ UNCHANGED <<config, message, replies, modelCalls, webhookPosts, response,
                   gemini_response_text, event_details, raised, removal,
                   stubRecord, delivered>>

\* Line 165.
SendWarning ==
    /\ pc = "send_warning"
    /\ Send(Reply("webhook_error", webhook_response.status,
                  Truncate(webhook_response.body, ReplyCap), "none"),
            "done")

\* Lines 167-173: except json.JSONDecodeError, the reply.
JsonSend ==
    /\ pc = "json_send"
    /\ Send(IF gemini_response_text.bound
            THEN Reply("not_understood", 0,
                       Truncate(gemini_response_text.text, ReplyCap), "none")
            ELSE Reply("no_response", 0, <<>>, "none"),
            "json_react")

\* Line 174.
JsonReact ==
    /\ pc = "json_react"
    /\ AddReaction("error", "done")

\* Lines 175-180: except BlockedPromptException, the marker's removal.
BlockedRemove ==
    /\ pc = "blocked_remove"
    /\ RemoveThinkingThen("blocked_react", TRUE)

\* Line 181.
BlockedReact ==
    /\ pc = "blocked_react"
    /\ AddReaction("blocked", "blocked_send")

\* Line 182.
BlockedSend ==
    /\ pc = "blocked_send"
    /\ Send(Reply("blocked", 0, <<>>, "none"), "done")

\* Lines 183-190: except Exception, the marker's removal.
UnexpectedRemove ==
    /\ pc = "unexpected_remove"
    /\ RemoveThinkingThen("unexpected_react", TRUE)

\* Line 191.
UnexpectedReact ==
    /\ pc = "unexpected_react"
    /\ AddReaction("error", "unexpected_send")

\* Line 192.
UnexpectedSend ==
    /\ pc = "unexpected_send"
    /\ Send(Reply("unexpected", 0, Truncate(ExcText(raised), ErrorCap), raised),
            "done")

\* Someone else clears the bot's thinking marker while the handler awaits
\* the model (the comment of line 122).
OthersRemoveThinking ==
    /\ pc = "call_model"
    /\ "thinking" \in reactions
    /\ reactions' = reactions \ {"thinking"}
    /\ UNCHANGED <<config, message, pc, reactionLog, replies, modelCalls,
                   webhookPosts, locals, raised, removal, stubRecord, delivered>>

Next ==
    \/ \E m \in Messages : on_message(m)
    \/ AddThinking
    \/ ModelReturns
    \/ ModelRaises
    \/ OthersRemoveThinking
    \/ RemoveThinking
    \/ Extract
    \/ AddShrug
    \/ PostReturns
    \/ PostRaises
    \/ AddSuccess
    \/ AddWarning
    \/ SendWarning
    \/ JsonSend
    \/ JsonReact
    \/ BlockedRemove
    \/ BlockedReact
    \/ BlockedSend
    \/ UnexpectedRemove
    \/ UnexpectedReact
    \/ UnexpectedSend

Spec == Init /\ [][Next]_vars

\* ---------------------------------------- the extractor on fenced records

\* The handler right after a stub model answered with a fenced serialisation
\* of an event record E and the thinking marker was removed (line 124 is
\* next).
InitExtractor ==
    /\ model = TRUE
    /\ MAKE_WEBHOOK_URL = TRUE
    /\ message = [author |-> "alice", channel |-> TARGET_CHANNEL_NAME]
    /\ pc = "extract"
    /\ delivered = 1
    /\ reactions = {}
    /\ reactionLog = << <<"add", "thinking">>, <<"remove", "thinking">> >>
    /\ replies = <<>>
    /\ modelCalls = 1
    /\ webhookPosts = 0
    /\ \E E \in EventRecords, style \in WrapStyles :
        /\ response = [bound |-> TRUE, hasText |-> TRUE,
                       text |-> Wrap(style, Dumps(E))]
        /\ stubRecord = [set |-> TRUE, rec |-> E]
    /\ gemini_response_text = NoTextYet
    /\ event_details = Unbound
    /\ webhook_response = NoWebhookResponse
    /\ raised = "none"
    /\ removal = "ok"

NextExtractor == Extract \/ AddShrug

SpecExtractor == InitExtractor /\ [][NextExtractor]_vars

\* ------------------------------------------------------------- the claims

Terminal == pc \in {"done", "escaped"}
Handling == message # NoMessage

\* C1: a message authored by the bot itself or from another channel than the
\* target channel causes no side effect: no reaction is added or removed, no
\* model call, no webhook POST and no reply.
C1_DiscardHasNoSideEffect ==
    (Handling /\ (message.author = BotUser \/ message.channel # TARGET_CHANNEL_NAME))
        => /\ pc = "done"
           /\ reactions = {}
           /\ reactionLog = <<>>
           /\ replies = <<>>
           /\ modelCalls = 0
           /\ webhookPosts = 0

\* The bot's own message in the target channel, with the configuration set,
\* was handled.
C1_Witness ==
    /\ model /\ MAKE_WEBHOOK_URL
    /\ message = [author |-> BotUser, channel |-> TARGET_CHANNEL_NAME]
    /\ pc = "done"

\* C2: whenever the parsed record is the empty object, the handler ends with
\* the shrug marker added and no reply, and never issues the webhook POST.
C2_EmptyObjectNeverPosted ==
    (event_details.bound /\ event_details.val = EmptyObject)
        => /\ webhookPosts = 0
           /\ replies = <<>>
           /\ pc \in {"add_shrug", "done"}
           /\ pc = "done" =>
                /\ reactions = {"shrug"}
                /\ reactionLog[Len(reactionLog)] = <<"add", "shrug">>

C2_Witness ==
    /\ pc = "done"
    /\ event_details = Bound(EmptyObject)
    /\ gemini_response_text.text = Wrap("json", <<"{", "}">>)
    /\ "shrug" \in reactions

\* C3: when the webhook POST returned a response, a status in 200..299 ends
\* with the success marker and no reply; any other status ends with the
\* warning marker and exactly one reply, which holds the status code.
C3_StatusDecidesOutcome ==
    (webhook_response.bound /\ pc = "done")
        => IF webhook_response.status \in 200..299
           THEN /\ reactions = {"success"}
                /\ replies = <<>>
           ELSE /\ reactions = {"warning"}
                /\ Len(replies) = 1
                /\ replies[1].kind = "webhook_error"
                /\ replies[1].status = webhook_response.status

C3_Witness ==
    /\ pc = "done"
    /\ webhook_response.bound
    /\ webhook_response.status = 500
    /\ Len(replies) = 1
    /\ replies[1].status = 500
    /\ "warning" \in reactions

\* A response text with no fence marker that is not of the form {...} after
\* trimming.
NoJsonMarkers(text) ==
    /\ \A i \in 1..Len(text) : ~(i + 2 <= Len(text) /\ text[i] = BT
                                  /\ text[i + 1] = BT /\ text[i + 2] = BT)
    /\ LET core == {i \in 1..Len(text) : text[i] \notin Whitespace}
       IN \/ core = {}
          \/ \E lo, hi \in core :
                /\ \A i \in core : lo <= i /\ i <= hi
                /\ ~(text[lo] = "{" /\ text[hi] = "}")

CouldNotFind ==
    <<"I", " ", "c", "o", "u", "l", "d", "n", "'", "t", " ", "f", "i", "n",
      "d", " ", "a", "n", "y", "t", "h", "i", "n", "g", ".">>

\* C4: a response text with no fence marker and not of the form {...} leads
\* to the no-JSON failure: JSONDecodeError is caught, nothing is parsed, no
\* webhook POST is issued, and the failure is reported with exactly one
\* reply (holding the raw text) and exactly one reaction change (the error
\* marker, the only marker left on the message).
C4_NoJsonFound ==
    (gemini_response_text.bound /\ NoJsonMarkers(gemini_response_text.text))
        => /\ raised = "JSONDecodeError"
           /\ pc \in {"json_send", "json_react", "done"}
           /\ ~event_details.bound
           /\ webhookPosts = 0
           /\ pc = "done" =>
                /\ replies = << Reply("not_understood", 0,
                                      gemini_response_text.text, "none") >>
                /\ reactionLog = << <<"add", "thinking">>, <<"remove", "thinking">>,
                                    <<"add", "error">> >>
                /\ reactions = {"error"}

C4_Witness ==
    /\ pc = "done"
    /\ gemini_response_text = BoundText(CouldNotFind)
    /\ Len(replies) = 1
    /\ reactions = {"error"}

\* A string field of the record holds a fence marker (three backticks).
HoldsFence(E) ==
    \E k \in DOMAIN E.obj :
        /\ E.obj[k].tag = "str"
        /\ \E i \in 1..Len(E.obj[k].str) :
              /\ i + 2 <= Len(E.obj[k].str)
              /\ E.obj[k].str[i] = BT
              /\ E.obj[k].str[i + 1] = BT
              /\ E.obj[k].str[i + 2] = BT

\* C5, as stated: for every event record E, extracting from a fenced block
\* around its serialisation yields an object equal to E.
C5_RoundTripAnyRecord ==
    (stubRecord.set /\ gemini_response_text.bound)
        => event_details = Bound(stubRecord.rec)

\* C5, amended: for every event record E none of whose string fields holds
\* a fence marker, extracting from a fenced block around its serialisation
\* yields an object equal to E.
C5_RoundTripFenceFree ==
    (stubRecord.set /\ gemini_response_text.bound /\ ~HoldsFence(stubRecord.rec))
        => event_details = Bound(stubRecord.rec)

C5_Witness ==
    /\ stubRecord.set
    /\ pc = "post"
    /\ KeyLocation \in DOMAIN stubRecord.rec.obj
    /\ stubRecord.rec.obj[KeyTitle] = JStr(<<DQ, BT, BT>>)
    /\ event_details = Bound(stubRecord.rec)

\* C6: for a message that passes the filter, every failure of a step (model
\* call, safety block, extraction, webhook transport, reaction removal) is
\* caught inside on_message: no exception escapes the handler.
C6_NoExceptionEscapes == pc # "escaped"

\* Where the handler goes on after a removal of the thinking marker.
ContinueAfter(site) ==
    CASE site = "remove_thinking" -> "extract"
      [] site = "blocked_remove" -> "blocked_react"
      [] OTHER -> "unexpected_react"

\* C7: a removal of the thinking marker that finds it gone (the platform
\* reports NotFound) is no failure: no exception is raised and the handler
\* goes on to the step a successful removal is followed by.
C7_NotFoundIsNoFailure ==
    [][(pc \in {"remove_thinking", "blocked_remove", "unexpected_remove"}
        /\ pc' # pc /\ removal' = "NotFound")
          => (pc' = ContinueAfter(pc) /\ raised' = raised)]_vars

\* C8: a handler that completes after a transport failure of the webhook
\* POST (the POST was issued, no response obtained) has reported a delivery
\* failure: warning marker, one reply, and no error marker.
C8_TransportFailureIsDeliveryFailure ==
    (pc = "done" /\ webhookPosts = 1 /\ ~webhook_response.bound)
        => /\ "warning" \in reactions
           /\ "error" \notin reactions
           /\ Len(replies) = 1

\* C9: once processing of a message that passed the filter has started, the
\* thinking marker was added first, and it is never on the message together
\* with the shrug, error or blocked marker, whichever step raised.
C9_ThinkingRemovedAtOutcome ==
    /\ (Handling /\ pc \notin {"add_thinking", "done"})
          => reactionLog # <<>> /\ reactionLog[1] = <<"add", "thinking">>
    /\ reactions \cap {"shrug", "error", "blocked"} # {}
          => "thinking" \notin reactions

\* C10: per message at most one model request and at most one webhook POST
\* are issued, and a POST is issued only after the model request returned
\* and its response was parsed into a non-empty value.
C10_SingleAttemptInOrder ==
    /\ modelCalls <= 1
    /\ webhookPosts <= 1
    /\ webhookPosts = 1 =>
          /\ modelCalls = 1
          /\ response.bound
          /\ gemini_response_text.bound
          /\ event_details.bound
          /\ event_details.val # EmptyObject
          /\ ~Falsy(event_details.val)

\* The POST failed in transport and the handler ended without a second
\* request of either kind.
C10_Witness ==
    /\ Terminal
    /\ modelCalls = 1
    /\ webhookPosts = 1
    /\ ~webhook_response.bound
    /\ event_details.bound

====
